---- MODULE Spec2Model ----
(***************************************************************************)
(* Model of the web page summarizer of src/main.py: the chunker (chunks),  *)
(* the defensive JSON parser (parse_json), and the pipeline                *)
(* main -> summarize_url -> fetch_clean / make_model / summarize_block.    *)
(*                                                                         *)
(* Strings are sequences of one-character strings.  Offsets are 0-based as *)
(* in Python and converted where a sequence is indexed.                    *)
(***************************************************************************)
EXTENDS Integers, Sequences, FiniteSets, TLC

\* ---------------------------------------------------------------- bounds
\* chunks() as a function: longest input string, largest n, largest overlap
MaxStrLen == 7
MaxN == 5
MaxOverlap == 5
\* parse_json() as a function: a payload is at most this many fragments
MaxFragments == 4
\* the pipeline: longest extracted text, and the defaults n and overlap of
\* chunks (12000 and 400 at line 32) scaled down to that text
MaxTextLen == 7
DefaultN == 5
DefaultOverlap == 1

\* ------------------------------------------------------------- variables
VARIABLES
    cs,        \* chunks: the argument s
    cn,        \* chunks: the argument n
    coverlap,  \* chunks: the argument overlap
    ci,        \* chunks: the local i
    cpc,       \* chunks: position of the generator
    cyield,    \* chunks: what the generator has yielded, in order
    ps,        \* parse_json: the argument s
    ppc,       \* parse_json: position in the function
    pm,        \* parse_json: the local m, the regex match
    pres,      \* parse_json: the value returned
    pc,        \* the process: position in main / summarize_url
    keyPresent,\* the environment: GEMINI_API_KEY is set
    bullets,   \* main: --bullets
    maxWords,  \* main: --max-words
    title,     \* summarize_url: title
    text,      \* summarize_url: text
    chunkList, \* summarize_url: what chunks(text) yields
    sect,      \* summarize_url: sect, as far as it is built
    mergedAbs, \* summarize_url: merged_abs
    mergedBul, \* summarize_url: merged_bul
    final,     \* summarize_url: final as summarize_block returned it
    result,    \* main: res
    calls,     \* the requests sent to the network so far, in order
    raised,    \* the exception raised inside summarize_url, "" for none
    stdout,    \* what the process printed to standard output
    exitCode,  \* the exit status of the process, -1 while it runs
    exitMsg    \* the message the process exited with

chunkVars == <<cs, cn, coverlap, ci, cpc, cyield>>
parseVars == <<ps, ppc, pm, pres>>
argVars == <<keyPresent, bullets, maxWords>>
pageVars == <<title, text, chunkList>>
workVars == <<sect, mergedAbs, mergedBul, final, result>>
exitVars == <<raised, stdout, exitCode, exitMsg>>
pipeVars == <<pc, argVars, pageVars, workVars, calls, exitVars>>
vars == <<chunkVars, parseVars, pipeVars>>

\* ------------------------------------------------------- Python helpers
Min(a, b) == IF a <= b THEN a ELSE b
Max(a, b) == IF a >= b THEN a ELSE b

\* s[a:b] for 0 <= a, 0 <= b
Slice(s, a, b) == SubSeq(s, a + 1, Min(b, Len(s)))

\* s.rfind(ch): the 0-based index of the last ch in s, -1 when there is none
RFind(s, ch) ==
    LET at == {j \in 0..(Len(s) - 1) : s[j + 1] = ch}
    IN  IF at = {} THEN -1 ELSE CHOOSE j \in at : \A k \in at : k <= j

\* every string over alphabet of length at most n
Strings(alphabet, n) == UNION {[1..k -> alphabet] : k \in 0..n}

\* ================================================================ chunks
NL == "\n"
ChunkAlphabet == {"a", NL}

\* PastSixtyPercent with the comparison off by one: the 60% position counts
PastSixtyPercentInclusive(j, n) == 10 * j >= 6 * n

\* j > n*0.6 (line 38).  n*0.6 is a float product; for the integers j and n of
\* the model (n < 40) it decides exactly as 10*j > 6*n.
PastSixtyPercent(j, n) == 10 * j > 6 * n

\* lines 36-38: the segment yielded for offset i
ChunkSeg(s, i, n) ==
    LET seg == Slice(s, i, i + n)
        j == RFind(seg, NL)
    IN  IF PastSixtyPercent(j, n) THEN Slice(seg, 0, j) ELSE seg

\* ChunkAdvance with a sign slip: the overlap added instead of subtracted
ChunkAdvanceSignSlip(seg, overlap) == Max(1, Len(seg) + overlap)

\* line 40: i += max(1, len(seg) - overlap)
ChunkAdvance(seg, overlap) == Max(1, Len(seg) - overlap)

\* line 33: the whole string is the only chunk
ChunkWhole ==
    /\ cpc = "start"
    /\ Len(cs) <= cn
    /\ cyield' = Append(cyield, [start |-> 0, seg |-> cs])
    /\ cpc' = "done"
    /\ UNCHANGED <<cs, cn, coverlap, ci>>
    /\ UNCHANGED <<parseVars, pipeVars>>

\* lines 33-34: longer input, enter the loop at i = 0
ChunkBegin ==
    /\ cpc = "start"
    /\ ~(Len(cs) <= cn)
    /\ ci' = 0
    /\ cpc' = "loop"
    /\ UNCHANGED <<cs, cn, coverlap, cyield>>
    /\ UNCHANGED <<parseVars, pipeVars>>

\* lines 35-40: one iteration of the loop
ChunkStep ==
    /\ cpc = "loop"
    /\ ci < Len(cs)
    /\ LET seg == ChunkSeg(cs, ci, cn)
       IN  /\ cyield' = Append(cyield, [start |-> ci, seg |-> seg])
           /\ ci' = ci + ChunkAdvance(seg, coverlap)
    /\ UNCHANGED <<cs, cn, coverlap, cpc>>
    /\ UNCHANGED <<parseVars, pipeVars>>

\* line 35: the loop condition fails, the generator is exhausted
ChunkEnd ==
    /\ cpc = "loop"
    /\ ~(ci < Len(cs))
    /\ cpc' = "done"
    /\ UNCHANGED <<cs, cn, coverlap, ci, cyield>>
    /\ UNCHANGED <<parseVars, pipeVars>>

\* no process is running
IdlePipe ==
    /\ pc = "idle"
    /\ keyPresent = FALSE
    /\ bullets = 0
    /\ maxWords = 0
    /\ title = <<>>
    /\ text = <<>>
    /\ chunkList = <<>>
    /\ sect = <<>>
    /\ mergedAbs = <<>>
    /\ mergedBul = <<>>
    /\ final = [kind |-> "none", v |-> <<>>]
    /\ result = [kind |-> "none", v |-> <<>>]
    /\ calls = <<>>
    /\ raised = ""
    /\ stdout = <<>>
    /\ exitCode = -1
    /\ exitMsg = <<>>

\* parse_json is not running
IdleParse ==
    /\ ps = <<>>
    /\ ppc = "idle"
    /\ pm = [found |-> FALSE, g |-> <<>>]
    /\ pres = [kind |-> "none", v |-> <<>>]

InitChunks ==
    /\ IdleParse
    /\ IdlePipe
    /\ cs \in Strings(ChunkAlphabet, MaxStrLen)
    /\ cn \in 1..MaxN
    /\ coverlap \in 0..MaxOverlap
    /\ ci = 0
    /\ cpc = "start"
    /\ cyield = <<>>

NextChunks == ChunkWhole \/ ChunkBegin \/ ChunkStep \/ ChunkEnd

SpecChunks == InitChunks /\ [][NextChunks]_vars

\* the offset in cs where the k-th yielded chunk ends
ChunkEndAt(k) == cyield[k].start + Len(cyield[k].seg)

\* the window s[i:i+n] the k-th yielded chunk was cut from
ChunkWindow(k) == Slice(cs, cyield[k].start, cyield[k].start + cn)

\* the 0-based positions of the line-breaks of a window
LineBreaks(win) == {j \in 0..(Len(win) - 1) : win[j + 1] = NL}

SetMax(S) == CHOOSE x \in S : \A y \in S : y <= x

\* ------------------------------------------------------------------ C1
\* C1: chunks yields at least one and at most max(1, len(s)) chunks, never
\* stops before it is exhausted, the first chunk starts at offset 0, every
\* later chunk starts at or before the offset where its predecessor ended,
\* and once the generator is exhausted some chunk ends at offset len(s).
C1_ChunksCover ==
    /\ Len(cyield) <= Max(1, Len(cs))
    /\ (cpc # "done" => ENABLED NextChunks)
    /\ (Len(cyield) >= 1 => cyield[1].start = 0)
    /\ \A k \in 2..Len(cyield) : cyield[k].start <= ChunkEndAt(k - 1)
    /\ \A k \in 1..Len(cyield) :
          cyield[k].seg = Slice(cs, cyield[k].start, ChunkEndAt(k))
    /\ (cpc = "done" =>
          /\ Len(cyield) >= 1
          /\ \E k \in 1..Len(cyield) : ChunkEndAt(k) = Len(cs))

\* a finished run of three or more overlapping chunks, one of them cut at a
\* line-break
C1_Witness ==
    /\ cpc = "done"
    /\ coverlap >= 1
    /\ Len(cyield) >= 3
    /\ \E k \in 1..Len(cyield) : Len(cyield[k].seg) < Len(ChunkWindow(k))

\* ------------------------------------------------------------------ C7
\* C7 as stated: for input longer than n, a window holding a line-break at a
\* position j >= 0.6*n is cut to end at such a line-break, and a window with
\* no line-break at or after 0.6*n is yielded whole.
C7_Original ==
    Len(cs) > cn =>
        \A k \in 1..Len(cyield) :
            LET win == ChunkWindow(k)
                late == {j \in LineBreaks(win) : 10 * j >= 6 * cn}
            IN  IF late # {}
                THEN \E j \in late : cyield[k].seg = Slice(win, 0, j)
                ELSE cyield[k].seg = win

\* C7 amended: for input longer than n, a window whose last line-break is at a
\* position j > 0.6*n (strictly after the 60% position) is cut to end just
\* before that last line-break; every other window, one whose last line-break
\* is exactly at 0.6*n included, is yielded whole.
C7_TruncateStrictlyPast ==
    Len(cs) > cn =>
        \A k \in 1..Len(cyield) :
            LET win == ChunkWindow(k)
                late == {j \in LineBreaks(win) : 10 * j > 6 * cn}
            IN  IF late # {}
                THEN cyield[k].seg = Slice(win, 0, SetMax(late))
                ELSE cyield[k].seg = win

\* one window was cut at a line-break past 60%, and one window whose last
\* line-break sits exactly at 0.6*n was yielded whole
C7_Witness ==
    /\ Len(cs) > cn
    /\ \E k \in 1..Len(cyield) : Len(cyield[k].seg) < Len(ChunkWindow(k))
    /\ \E k \in 1..Len(cyield) :
          /\ LineBreaks(ChunkWindow(k)) # {}
          /\ 10 * SetMax(LineBreaks(ChunkWindow(k))) = 6 * cn
          /\ cyield[k].seg = ChunkWindow(k)

\* ----------------------------------------------------------------- C10
\* C10: for len(s) > n and 0 <= overlap < n, every chunk after the first ends
\* strictly later in s than its predecessor ended.
C10_EachChunkEndsLater ==
    (Len(cs) > cn /\ coverlap < cn) =>
        \A k \in 2..Len(cyield) : ChunkEndAt(k) > ChunkEndAt(k - 1)


\* the backquote character (a string of the module cannot hold one)
Tick == "BACKQUOTE"

\* ============================================================ JSON values
\* A parsed JSON value is a record [kind, v]: a str holds its characters, a
\* num its digits, a list its items, a dict its (key, value) pairs in
\* insertion order with one pair per key.
JStr(chars) == [kind |-> "str", v |-> chars]
JNum(digits) == [kind |-> "num", v |-> digits]
JList(items) == [kind |-> "list", v |-> items]
JDict(pairs) == [kind |-> "dict", v |-> pairs]
JNone == [kind |-> "none", v |-> <<>>]

IsDict(x) == x.kind = "dict"
IsList(x) == x.kind = "list"
IsStr(x) == x.kind = "str"

\* key in d
DictHas(d, key) == \E i \in 1..Len(d.v) : d.v[i].k = key

\* d.get(key, default)
DictGet(d, key, default) ==
    IF DictHas(d, key)
    THEN d.v[CHOOSE i \in 1..Len(d.v) : d.v[i].k = key].val
    ELSE default

\* the pairs of a dict after d[key] = val: a key already present keeps its
\* place and takes the new value
DictPut(pairs, key, val) ==
    IF \E i \in 1..Len(pairs) : pairs[i].k = key
    THEN [i \in 1..Len(pairs) |->
            IF pairs[i].k = key THEN [k |-> key, val |-> val] ELSE pairs[i]]
    ELSE Append(pairs, [k |-> key, val |-> val])

\* bool(x) of a parsed value
Truthy(x) ==
    CASE x.kind = "num" -> x.v # <<"0">>
      [] x.kind = "none" -> FALSE
      [] OTHER -> x.v # <<>>

\* =========================================================== json.loads
\* The decoder over the characters the payloads of the model are made of:
\* objects, arrays, strings without escapes and unsigned integers, with
\* blanks and line-breaks as whitespace.  Positions are 1-based.
Whitespace == {" ", NL}
Digits == {"0", "1", "2", "3", "4", "5", "6", "7", "8", "9"}
Quote == "\""

ScanFail == [ok |-> FALSE, val |-> JNone, pos |-> 0]
ScanOk(val, pos) == [ok |-> TRUE, val |-> val, pos |-> pos]

\* the first position at or after p that holds no whitespace
RECURSIVE SkipWs(_, _)
SkipWs(s, p) ==
    IF p <= Len(s) /\ s[p] \in Whitespace THEN SkipWs(s, p + 1) ELSE p

\* the first position at or after p that holds ch, 0 when there is none
RECURSIVE FindFrom(_, _, _)
FindFrom(s, p, ch) ==
    IF p > Len(s) THEN 0
    ELSE IF s[p] = ch THEN p
    ELSE FindFrom(s, p + 1, ch)

\* a string whose opening quote is just before p; a raw line-break inside it
\* is a control character and an error
ScanString(s, p) ==
    LET q == FindFrom(s, p, Quote)
    IN  IF q = 0 \/ (\E i \in p..(q - 1) : s[i] = NL)
        THEN ScanFail
        ELSE ScanOk(JStr(SubSeq(s, p, q - 1)), q + 1)

\* the position after the run of digits that starts at p
RECURSIVE DigitsEnd(_, _)
DigitsEnd(s, p) ==
    IF p <= Len(s) /\ s[p] \in Digits THEN DigitsEnd(s, p + 1) ELSE p

\* an unsigned integer at p: 0, or a run of digits that does not start with 0
ScanNumber(s, p) ==
    IF s[p] = "0"
    THEN ScanOk(JNum(<<"0">>), p + 1)
    ELSE ScanOk(JNum(SubSeq(s, p, DigitsEnd(s, p) - 1)), DigitsEnd(s, p))

RECURSIVE ScanOnce(_, _), ObjectMembers(_, _, _), ArrayItems(_, _, _)

\* the members of an object; p is just after the opening quote of a key
ObjectMembers(s, p, acc) ==
    LET key == ScanString(s, p)
        colon == SkipWs(s, key.pos)
        val == ScanOnce(s, SkipWs(s, colon + 1))
        nxt == SkipWs(s, val.pos)
        acc2 == DictPut(acc, key.val.v, val.val)
        after == SkipWs(s, nxt + 1)
    IN  IF ~key.ok THEN ScanFail
        ELSE IF colon > Len(s) \/ s[colon] # ":" THEN ScanFail
        ELSE IF ~val.ok THEN ScanFail
        ELSE IF nxt > Len(s) THEN ScanFail
        ELSE IF s[nxt] = "}" THEN ScanOk(JDict(acc2), nxt + 1)
        ELSE IF s[nxt] # "," THEN ScanFail
        ELSE IF after <= Len(s) /\ s[after] = Quote
             THEN ObjectMembers(s, after + 1, acc2)
             ELSE ScanFail

\* the items of an array; p is where the next item starts
ArrayItems(s, p, acc) ==
    LET val == ScanOnce(s, p)
        nxt == SkipWs(s, val.pos)
    IN  IF ~val.ok THEN ScanFail
        ELSE IF nxt > Len(s) THEN ScanFail
        ELSE IF s[nxt] = "]" THEN ScanOk(JList(Append(acc, val.val)), nxt + 1)
        ELSE IF s[nxt] # "," THEN ScanFail
        ELSE ArrayItems(s, SkipWs(s, nxt + 1), Append(acc, val.val))

\* one value starting exactly at p
ScanOnce(s, p) ==
    IF p > Len(s) THEN ScanFail
    ELSE IF s[p] = Quote THEN ScanString(s, p + 1)
    ELSE IF s[p] = "{" THEN
        LET q == SkipWs(s, p + 1)
        IN  IF q <= Len(s) /\ s[q] = "}" THEN ScanOk(JDict(<<>>), q + 1)
            ELSE IF q <= Len(s) /\ s[q] = Quote
                 THEN ObjectMembers(s, q + 1, <<>>)
                 ELSE ScanFail
    ELSE IF s[p] = "[" THEN
        LET q == SkipWs(s, p + 1)
        IN  IF q <= Len(s) /\ s[q] = "]" THEN ScanOk(JList(<<>>), q + 1)
            ELSE ArrayItems(s, q, <<>>)
    ELSE IF s[p] \in Digits THEN ScanNumber(s, p)
    ELSE ScanFail

\* json.loads(s): [ok, val]; ok is FALSE where json.loads raises
JsonLoads(s) ==
    LET r == ScanOnce(s, SkipWs(s, 1))
    IN  IF r.ok /\ SkipWs(s, r.pos) = Len(s) + 1
        THEN [ok |-> TRUE, val |-> r.val]
        ELSE [ok |-> FALSE, val |-> JNone]

\* ============================================================ parse_json
\* ```json
FenceOpen ==
    <<Tick, Tick, Tick, "j", "s", "o", "n">>
\* ```
FenceClose ==
    <<Tick, Tick, Tick>>
\* abstract
KeyAbstract ==
    <<"a", "b", "s", "t", "r", "a", "c", "t">>
\* bullets
KeyBullets ==
    <<"b", "u", "l", "l", "e", "t", "s">>
NoMatch == [found |-> FALSE, g |-> <<>>]
Match(g) == [found |-> TRUE, g |-> g]

\* lit occurs in s at position p
LitAt(s, p, lit) ==
    /\ p + Len(lit) - 1 <= Len(s)
    /\ SubSeq(s, p, p + Len(lit) - 1) = lit

\* the positions e of a "}" that can close group 1 of the fenced pattern when
\* the group opens at b: only whitespace lies between e and a closing fence
FenceClosers(s, b) ==
    {e \in (b + 1)..Len(s) :
        s[e] = "}" /\ LitAt(s, SkipWs(s, e + 1), FenceClose)}

\* the pattern ```json\s*(\{.*?\})\s*``` can match starting at position p
FencedMatchesAt(s, p) ==
    /\ LitAt(s, p, FenceOpen)
    /\ LET b == SkipWs(s, p + Len(FenceOpen))
       IN  b <= Len(s) /\ s[b] = "{" /\ FenceClosers(s, b) # {}

\* re.search(r"```json\s*(\{.*?\})\s*```", s, re.S): group 1 of the leftmost
\* match, the lazy .*? stopping at the first "}" a closing fence follows
SearchFenced(s) ==
    LET starts == {p \in 1..Len(s) : FencedMatchesAt(s, p)}
    IN  IF starts = {} THEN NoMatch
        ELSE LET p == CHOOSE x \in starts : \A y \in starts : x <= y
                 b == SkipWs(s, p + Len(FenceOpen))
                 es == FenceClosers(s, b)
                 e == CHOOSE x \in es : \A y \in es : x <= y
             IN  Match(SubSeq(s, b, e))

\* re.search(r"(\{.*\})", s, re.S): from the first "{" to the last "}" after it
SearchSpan(s) ==
    LET p == FindFrom(s, 1, "{")
        closers == {q \in 1..Len(s) : s[q] = "}" /\ q > p}
    IN  IF p = 0 \/ closers = {} THEN NoMatch
        ELSE Match(SubSeq(s, p, SetMax(closers)))

\* line 55: m = re.search(fenced) or re.search(span)
SearchEither(s) ==
    IF SearchFenced(s).found THEN SearchFenced(s) ELSE SearchSpan(s)

\* s.strip()
RECURSIVE RStrip(_)
RStrip(s) ==
    IF s # <<>> /\ s[Len(s)] \in Whitespace
    THEN RStrip(SubSeq(s, 1, Len(s) - 1))
    ELSE s
Strip(s) == RStrip(SubSeq(s, SkipWs(s, 1), Len(s)))

\* line 59: {"abstract": s.strip(), "bullets": []}
Fallback(s) ==
    JDict(<<[k |-> KeyAbstract, val |-> JStr(Strip(s))],
            [k |-> KeyBullets, val |-> JList(<<>>)]>>)

\* parse_json(s), lines 51-59
ParseJson(s) ==
    IF JsonLoads(s).ok THEN JsonLoads(s).val
    ELSE LET m == SearchEither(s)
         IN  IF m.found /\ JsonLoads(m.g).ok
             THEN JsonLoads(m.g).val
             ELSE Fallback(s)

\* ---- parse_json step by step
\* lines 52-53: json.loads(s) returns
ParseLoadsOk ==
    /\ ppc = "try"
    /\ JsonLoads(ps).ok
    /\ pres' = JsonLoads(ps).val
    /\ ppc' = "ret"
    /\ UNCHANGED <<ps, pm>>
    /\ UNCHANGED <<chunkVars, pipeVars>>

\* lines 52-54: json.loads(s) raises
ParseLoadsRaise ==
    /\ ppc = "try"
    /\ ~JsonLoads(ps).ok
    /\ ppc' = "except"
    /\ UNCHANGED <<ps, pm, pres>>
    /\ UNCHANGED <<chunkVars, pipeVars>>

\* lines 55-56: the searches; without a match control falls to line 59
ParseSearch ==
    /\ ppc = "except"
    /\ pm' = SearchEither(ps)
    /\ ppc' = IF pm'.found THEN "group" ELSE "fallback"
    /\ UNCHANGED <<ps, pres>>
    /\ UNCHANGED <<chunkVars, pipeVars>>

\* line 57: json.loads(m.group(1)) returns
ParseGroupOk ==
    /\ ppc = "group"
    /\ JsonLoads(pm.g).ok
    /\ pres' = JsonLoads(pm.g).val
    /\ ppc' = "ret"
    /\ UNCHANGED <<ps, pm>>
    /\ UNCHANGED <<chunkVars, pipeVars>>

\* lines 57-58: json.loads(m.group(1)) raises, and the error is passed over
ParseGroupRaise ==
    /\ ppc = "group"
    /\ ~JsonLoads(pm.g).ok
    /\ ppc' = "fallback"
    /\ UNCHANGED <<ps, pm, pres>>
    /\ UNCHANGED <<chunkVars, pipeVars>>

\* line 59
ParseFallback ==
    /\ ppc = "fallback"
    /\ pres' = Fallback(ps)
    /\ ppc' = "ret"
    /\ UNCHANGED <<ps, pm>>
    /\ UNCHANGED <<chunkVars, pipeVars>>

\* ---- the payloads parse_json is applied to
\* t
FragProse ==
    <<"t">>
\* one space
FragSpace ==
    <<" ">>
\* {"abstract":"x","bullets":["a"]}
FragObject ==
    <<"{", "\"", "a", "b", "s", "t", "r", "a", "c", "t", "\"", ":", "\"",
      "x", "\"", ",", "\"", "b", "u", "l", "l", "e", "t", "s", "\"", ":",
      "[", "\"", "a", "\"", "]", "}">>
\* ```json
FragFenceOpen ==
    <<Tick, Tick, Tick, "j", "s", "o", "n">>
\* ```
FragFenceClose ==
    <<Tick, Tick, Tick>>
\* ```json{y}```
FragBadFence ==
    <<Tick, Tick, Tick, "j", "s", "o", "n", "{", "y", "}", Tick, Tick, Tick>>
\* {"abstract":"
FragOpenAbstract ==
    <<"{", "\"", "a", "b", "s", "t", "r", "a", "c", "t", "\"", ":", "\"">>
\* "}
FragCloseString ==
    <<"\"", "}">>
\* [1]
FragList ==
    <<"[", "1", "]">>
Fragments ==
    {FragProse, FragSpace, FragObject, FragFenceOpen, FragFenceClose,
     FragBadFence, FragOpenAbstract, FragCloseString, FragList}

RECURSIVE Concat(_)
Concat(parts) ==
    IF parts = <<>> THEN <<>> ELSE Head(parts) \o Concat(Tail(parts))

\* every payload made of at most n fragments
Payloads(n) == {Concat(fs) : fs \in Strings(Fragments, n)}

\* chunks is not running
IdleChunks ==
    /\ cs = <<>>
    /\ cn = 1
    /\ coverlap = 0
    /\ ci = 0
    /\ cpc = "idle"
    /\ cyield = <<>>

InitParse ==
    /\ IdleChunks
    /\ IdlePipe
    /\ ps \in Payloads(MaxFragments)
    /\ ppc = "try"
    /\ pm = NoMatch
    /\ pres = JNone

NextParse ==
    \/ ParseLoadsOk
    \/ ParseLoadsRaise
    \/ ParseSearch
    \/ ParseGroupOk
    \/ ParseGroupRaise
    \/ ParseFallback

SpecParse == InitParse /\ [][NextParse]_vars

\* ------------------------------------------------------------------ C8
\* what the cascade (a), (b), (c), fallback returns when each strategy is
\* tried whenever all the earlier ones failed
CascadeInOrder(s) ==
    IF JsonLoads(s).ok THEN JsonLoads(s).val
    ELSE IF SearchFenced(s).found /\ JsonLoads(SearchFenced(s).g).ok
         THEN JsonLoads(SearchFenced(s).g).val
    ELSE IF SearchSpan(s).found /\ JsonLoads(SearchSpan(s).g).ok
         THEN JsonLoads(SearchSpan(s).g).val
    ELSE Fallback(s)

\* C8: parse_json returns the result of the first of (a) the whole payload,
\* (b) the fenced block, (c) the {...} span that parses, and the fallback only
\* when all three failed.
C8_StrategiesInOrder ==
    ppc = "ret" => pres = CascadeInOrder(ps)


\* ========================================================== the pipeline
\* chunks(s, n, overlap) as the list of what the generator yields
RECURSIVE ChunksFrom(_, _, _, _)
ChunksFrom(s, i, n, overlap) ==
    IF i < Len(s)
    THEN LET seg == ChunkSeg(s, i, n)
         IN  <<seg>> \o ChunksFrom(s, i + ChunkAdvance(seg, overlap), n, overlap)
    ELSE <<>>
Chunks(s, n, overlap) ==
    IF Len(s) <= n THEN <<s>> ELSE ChunksFrom(s, 0, n, overlap)

\* program constants
PromptCap == 16000
MergedCap == 20000
ChunkBulletCap == 7
ChunkWordCap == 220
FallbackCharsPerWord == 8

\* title
KeyTitle ==
    <<"t", "i", "t", "l", "e">>
\* url
KeyUrl ==
    <<"u", "r", "l">>
\* the --url argument
Url == <<"u">>

\* ---- the responses the model endpoint can give
\* {"abstract":"xyz","bullets":["a","b"]}
PayObject ==
    <<"{", "\"", "a", "b", "s", "t", "r", "a", "c", "t", "\"", ":", "\"",
      "x", "y", "z", "\"", ",", "\"", "b", "u", "l", "l", "e", "t", "s",
      "\"", ":", "[", "\"", "a", "\"", ",", "\"", "b", "\"", "]", "}">>
\* {"bullets":["c"]}
PayNoAbstract ==
    <<"{", "\"", "b", "u", "l", "l", "e", "t", "s", "\"", ":", "[", "\"",
      "c", "\"", "]", "}">>
\* {"abstract":"","bullets":[]}
PayEmptyAbstract ==
    <<"{", "\"", "a", "b", "s", "t", "r", "a", "c", "t", "\"", ":", "\"",
      "\"", ",", "\"", "b", "u", "l", "l", "e", "t", "s", "\"", ":", "[",
      "]", "}">>
\* the empty payload
PayEmpty ==
    <<>>
\* [1]
PayList ==
    <<"[", "1", "]">>
\* {"abstract":1}
PayNumAbstract ==
    <<"{", "\"", "a", "b", "s", "t", "r", "a", "c", "t", "\"", ":", "1", "}">>
\* t
PayProse ==
    <<"t">>
\* the two parts of a response that carries PayObject in candidate parts
\* {"abstract":"xyz",
PartHead ==
    <<"{", "\"", "a", "b", "s", "t", "r", "a", "c", "t", "\"", ":", "\"",
      "x", "y", "z", "\"", ",">>
\* "bullets":["d"]}
PartTail ==
    <<"\"", "b", "u", "l", "l", "e", "t", "s", "\"", ":", "[", "\"", "d",
      "\"", "]", "}">>
\* a response: its text attribute (None when hasText is FALSE) and the text
\* of the parts of its first candidate (no candidates when hasCand is FALSE)
TextResponse(payload) ==
    [hasText |-> TRUE, text |-> payload, hasCand |-> FALSE, parts |-> <<>>]
PartsResponse(parts) ==
    [hasText |-> FALSE, text |-> <<>>, hasCand |-> TRUE, parts |-> parts]
BareResponse ==
    [hasText |-> FALSE, text |-> <<>>, hasCand |-> FALSE, parts |-> <<>>]

Responses ==
    {TextResponse(p) : p \in {PayObject, PayNoAbstract, PayEmptyAbstract,
                              PayEmpty, PayList, PayNumAbstract, PayProse}}
    \cup {PartsResponse(<<PartHead, PartTail>>), BareResponse}

\* lines 72-77: the text payload of a response
ResponseText(resp) ==
    IF resp.hasText THEN resp.text
    ELSE IF resp.hasCand THEN Concat(resp.parts)
    ELSE <<>>

\* lines 71-78: what summarize_block returns for a response
SummarizeBlock(resp) == ParseJson(ResponseText(resp))

\* ChunkBullets without the clamp: the caller's bullet count passed through
ChunkBulletsUnclamped(b) == b

\* line 83: bullets=min(7, bullets)
ChunkBullets(b) == Min(ChunkBulletCap, b)

\* line 83: max_words=min(220, max_words)
ChunkWords(w) == Min(ChunkWordCap, w)

\* the request a call of summarize_block sends (lines 62-71): the prompt
\* carries max_words, bullets and the first 16000 characters of the text
Generate(txt, b, w) ==
    [op |-> "generate", text |-> Slice(txt, 0, PromptCap),
     bullets |-> b, max_words |-> w]
\* the request of fetch_clean (line 14)
Get == [op |-> "GET", text |-> Url, bullets |-> 0, max_words |-> 0]

\* " ".join(strs)
RECURSIVE JoinSpace(_)
JoinSpace(strs) ==
    IF strs = <<>> THEN <<>>
    ELSE IF Len(strs) = 1 THEN strs[1]
    ELSE strs[1] \o <<" ">> \o JoinSpace(Tail(strs))

\* the exception lines 84-85 raise for this sect, "" when they raise none
MergeError(ss) ==
    IF \E i \in 1..Len(ss) : ~IsDict(ss[i]) THEN "AttributeError"
    ELSE IF \E i \in 1..Len(ss) : ~IsStr(DictGet(ss[i], KeyAbstract, JStr(<<>>)))
         THEN "TypeError"
    ELSE IF \E i \in 1..Len(ss) : ~IsList(DictGet(ss[i], KeyBullets, JList(<<>>)))
         THEN "TypeError"
    ELSE ""

\* line 84: " ".join(s.get("abstract","") for s in sect)[:20000]
MergeAbstracts(ss) ==
    Slice(JoinSpace([i \in 1..Len(ss) |->
                        DictGet(ss[i], KeyAbstract, JStr(<<>>)).v]),
          0, MergedCap)

\* sum((s.get("bullets",[]) for s in sect), [])
RECURSIVE SumBullets(_)
SumBullets(ss) ==
    IF ss = <<>> THEN <<>>
    ELSE DictGet(ss[1], KeyBullets, JList(<<>>)).v \o SumBullets(Tail(ss))

\* MergeBullets without the slice: the merged list not cut to the bullet count
MergeBulletsUncut(ss, b) == SumBullets(ss)

\* line 85: sum(...)[:bullets], for bullets >= 0
MergeBullets(ss, b) == Slice(SumBullets(ss), 0, b)

\* lines 87-89: final after the defaults, the title and the url are set
Finalize(fin, mAbs, mBul, w, ttl) ==
    LET withAbs ==
            IF DictHas(fin, KeyAbstract) THEN fin.v
            ELSE DictPut(fin.v, KeyAbstract,
                         JStr(Slice(mAbs, 0, w * FallbackCharsPerWord)))
        got == DictGet(fin, KeyBullets, JList(<<>>))
        withBul == DictPut(withAbs, KeyBullets,
                           IF Truthy(got) THEN got ELSE JList(mBul))
    IN  JDict(DictPut(DictPut(withBul, KeyTitle, JStr(ttl)), KeyUrl, JStr(Url)))

\* SysExit with the status lost: the process ends with status 0
SysExitZero(msg) ==
    /\ pc' = "exit"
    /\ exitCode' = 0
    /\ exitMsg' = msg

\* SystemExit(msg) reaching the top: the message goes to standard error and
\* the exit status is 1
SysExit(msg) ==
    /\ pc' = "exit"
    /\ exitCode' = 1
    /\ exitMsg' = msg

\* lines 102-105: an exception leaves summarize_url and main turns it into
\* SystemExit with a message that names it
HandleException(kind) ==
    /\ raised' = kind
    /\ SysExit(IF kind = "HTTPError" THEN <<" HTTP ", kind>>
                                      ELSE <<" ", kind, ": ">>)
    /\ UNCHANGED stdout

\* lines 10 and 29: SystemExit raised inside summarize_url; it is no Exception
\* and passes lines 102-105
RaiseSystemExit(msg) ==
    /\ raised' = "SystemExit"
    /\ SysExit(<<msg>>)
    /\ UNCHANGED stdout

\* ---- fetch_clean (line 81, lines 13-30)
\* line 14: requests.get raises (no connection, timeout)
FetchRaises ==
    /\ pc = "main"
    /\ calls' = Append(calls, Get)
    /\ HandleException("ConnectionError")
    /\ UNCHANGED <<argVars, pageVars, workVars>>
    /\ UNCHANGED <<chunkVars, parseVars>>

\* line 18: raise_for_status raises on a status that is not 2xx
FetchHttpError ==
    /\ pc = "main"
    /\ calls' = Append(calls, Get)
    /\ HandleException("HTTPError")
    /\ UNCHANGED <<argVars, pageVars, workVars>>
    /\ UNCHANGED <<chunkVars, parseVars>>

\* lines 28-29: nothing readable was extracted
FetchNoText ==
    /\ pc = "main"
    /\ calls' = Append(calls, Get)
    /\ RaiseSystemExit("Could not extract readable text from the page.")
    /\ UNCHANGED <<argVars, pageVars, workVars>>
    /\ UNCHANGED <<chunkVars, parseVars>>

\* the titles and the texts the extraction can give: the text holds at least
\* one fragment of three words (line 26) and has its whitespace collapsed to
\* single blanks and trimmed (line 27), so it holds no line-break
Titles == {<<>>, <<"T">>}
MinText == <<"a", " ", "a", " ", "a">>
Texts == {MinText \o [i \in 1..k |-> "a"] : k \in 0..(MaxTextLen - Len(MinText))}

\* lines 14-30: the page is fetched and text extracted from it
FetchOk ==
    /\ pc = "main"
    /\ calls' = Append(calls, Get)
    /\ title' \in Titles
    /\ text' \in Texts
    /\ pc' = "fetched"
    /\ UNCHANGED <<argVars, chunkList, workVars, exitVars>>
    /\ UNCHANGED <<chunkVars, parseVars>>

\* ---- make_model (line 82, lines 42-49, load_key lines 6-11)
\* lines 9-10: no key
MakeModelNoKey ==
    /\ pc = "fetched"
    /\ ~keyPresent
    /\ RaiseSystemExit("set GEMINI_API_KEY in .env")
    /\ UNCHANGED <<argVars, pageVars, workVars, calls>>
    /\ UNCHANGED <<chunkVars, parseVars>>

\* lines 43-49: the model handle is built; line 83 starts on chunks(text)
MakeModelOk ==
    /\ pc = "fetched"
    /\ keyPresent
    /\ chunkList' = Chunks(text, DefaultN, DefaultOverlap)
    /\ pc' = "chunks"
    /\ UNCHANGED <<argVars, title, text, workVars, calls, exitVars>>
    /\ UNCHANGED <<chunkVars, parseVars>>

\* ---- line 83: one summarize_block call for the next chunk
SummarizeChunkOk ==
    /\ pc = "chunks"
    /\ Len(sect) < Len(chunkList)
    /\ calls' = Append(calls, Generate(chunkList[Len(sect) + 1],
                                       ChunkBullets(bullets), ChunkWords(maxWords)))
    /\ \E resp \in Responses : sect' = Append(sect, SummarizeBlock(resp))
    /\ UNCHANGED <<pc, argVars, pageVars, mergedAbs, mergedBul, final, result>>
    /\ UNCHANGED exitVars
    /\ UNCHANGED <<chunkVars, parseVars>>

\* line 71 under line 83: the model call itself raises
SummarizeChunkRaises ==
    /\ pc = "chunks"
    /\ Len(sect) < Len(chunkList)
    /\ calls' = Append(calls, Generate(chunkList[Len(sect) + 1],
                                       ChunkBullets(bullets), ChunkWords(maxWords)))
    /\ HandleException("ModelError")
    /\ UNCHANGED <<argVars, pageVars, workVars>>
    /\ UNCHANGED <<chunkVars, parseVars>>

\* ---- lines 84-85
MergeRaises ==
    /\ pc = "chunks"
    /\ Len(sect) = Len(chunkList)
    /\ MergeError(sect) # ""
    /\ HandleException(MergeError(sect))
    /\ UNCHANGED <<argVars, pageVars, workVars, calls>>
    /\ UNCHANGED <<chunkVars, parseVars>>

MergeOk ==
    /\ pc = "chunks"
    /\ Len(sect) = Len(chunkList)
    /\ MergeError(sect) = ""
    /\ mergedAbs' = MergeAbstracts(sect)
    /\ mergedBul' = MergeBullets(sect, bullets)
    /\ pc' = "final"
    /\ UNCHANGED <<argVars, pageVars, sect, final, result, calls, exitVars>>
    /\ UNCHANGED <<chunkVars, parseVars>>

\* ---- line 86: the final summarize_block call
FinalCallOk ==
    /\ pc = "final"
    /\ calls' = Append(calls, Generate(mergedAbs, bullets, maxWords))
    /\ \E resp \in Responses : final' = SummarizeBlock(resp)
    /\ pc' = "finish"
    /\ UNCHANGED <<argVars, pageVars, sect, mergedAbs, mergedBul, result>>
    /\ UNCHANGED exitVars
    /\ UNCHANGED <<chunkVars, parseVars>>

FinalCallRaises ==
    /\ pc = "final"
    /\ calls' = Append(calls, Generate(mergedAbs, bullets, maxWords))
    /\ HandleException("ModelError")
    /\ UNCHANGED <<argVars, pageVars, workVars>>
    /\ UNCHANGED <<chunkVars, parseVars>>

\* ---- lines 87-90
\* line 87: final is no dict and has no setdefault
FinishRaises ==
    /\ pc = "finish"
    /\ ~IsDict(final)
    /\ HandleException("AttributeError")
    /\ UNCHANGED <<argVars, pageVars, workVars, calls>>
    /\ UNCHANGED <<chunkVars, parseVars>>

\* lines 87-90 and line 100: summarize_url returns
FinishOk ==
    /\ pc = "finish"
    /\ IsDict(final)
    /\ result' = Finalize(final, mergedAbs, mergedBul, maxWords, title)
    /\ pc' = "returned"
    /\ UNCHANGED <<argVars, pageVars, sect, mergedAbs, mergedBul, final>>
    /\ UNCHANGED <<calls, exitVars>>
    /\ UNCHANGED <<chunkVars, parseVars>>

\* line 101: the result is printed as JSON and the process ends
PrintResult ==
    /\ pc = "returned"
    /\ stdout' = Append(stdout, result)
    /\ exitCode' = 0
    /\ pc' = "done"
    /\ UNCHANGED <<argVars, pageVars, workVars, calls, raised, exitMsg>>
    /\ UNCHANGED <<chunkVars, parseVars>>

\* the command lines and environments a run starts from
BulletChoices == {0, 1, 8}
MaxWordChoices == {1, 221}

\* line 98: the arguments are parsed, nothing else has happened
Init ==
    /\ IdleChunks
    /\ IdleParse
    /\ pc = "main"
    /\ keyPresent \in BOOLEAN
    /\ bullets \in BulletChoices
    /\ maxWords \in MaxWordChoices
    /\ title = <<>>
    /\ text = <<>>
    /\ chunkList = <<>>
    /\ sect = <<>>
    /\ mergedAbs = <<>>
    /\ mergedBul = <<>>
    /\ final = JNone
    /\ result = JNone
    /\ calls = <<>>
    /\ raised = ""
    /\ stdout = <<>>
    /\ exitCode = -1
    /\ exitMsg = <<>>

Next ==
    \/ FetchRaises
    \/ FetchHttpError
    \/ FetchNoText
    \/ FetchOk
    \/ MakeModelNoKey
    \/ MakeModelOk
    \/ SummarizeChunkOk
    \/ SummarizeChunkRaises
    \/ MergeRaises
    \/ MergeOk
    \/ FinalCallOk
    \/ FinalCallRaises
    \/ FinishRaises
    \/ FinishOk
    \/ PrintResult

Spec == Init /\ [][Next]_vars


\* summarize_url has returned
Returned == pc \in {"returned", "done"}

\* the value of a key of the result, JNone when the key is missing
ResultAt(key) == DictGet(result, key, JNone)

\* the bullets of the final summarize_block call, [] when it gave none
FinalBullets == DictGet(final, KeyBullets, JList(<<>>))

\* ------------------------------------------------------------------ C2
\* C2 as stated: the bullets of the final result never number more than
\* `bullets`, whatever the model returned.
C2_Original ==
    Returned => Len(ResultAt(KeyBullets).v) <= bullets

\* C2 amended: when the final call gives no bullets (none, or an empty list)
\* the bullets of the final result are the per-chunk bullets in order cut to
\* the first `bullets` entries, so never more than `bullets`; when the final
\* call gives a non-empty bullets value the result carries it unchanged,
\* whatever its length.
C2_FallbackBulletsCapped ==
    Returned =>
        IF Truthy(FinalBullets)
        THEN ResultAt(KeyBullets) = FinalBullets
        ELSE /\ IsList(ResultAt(KeyBullets))
             /\ Len(ResultAt(KeyBullets).v) <= bullets
             /\ \A i \in 1..Len(ResultAt(KeyBullets).v) :
                  ResultAt(KeyBullets).v[i] = SumBullets(sect)[i]
             /\ Len(ResultAt(KeyBullets).v) = Min(bullets, Len(SumBullets(sect)))

\* the final call gave no bullets and the chunks gave more than were asked for
C2_Witness ==
    /\ pc = "done"
    /\ bullets >= 1
    /\ ~Truthy(FinalBullets)
    /\ Len(SumBullets(sect)) > bullets
    /\ Len(ResultAt(KeyBullets).v) = bullets

\* ------------------------------------------------------------------ C3
\* C3: whatever text the model returns, summarize_block returns a mapping
\* with an abstract string and a bullets list, and summarize_url does not
\* fail because of the shape of a payload.
C3_MalformedOutputNeverFatal ==
    /\ \A i \in 1..Len(sect) : IsDict(sect[i])
    /\ (pc \in {"finish", "returned", "done"} => IsDict(final))
    /\ raised \notin {"AttributeError", "TypeError"}

\* ------------------------------------------------------------------ C4
\* C4: in a run without GEMINI_API_KEY no request is ever sent, neither the
\* GET of the page nor a model request.
C4_NoKeyNoNetwork ==
    ~keyPresent => calls = <<>>

\* ------------------------------------------------------------------ C5
\* C5: the abstract of the result is the first max_words*8 characters of
\* merged_abs when the final call gave no abstract key or an empty abstract,
\* and the abstract of the final call otherwise.
C5_EmptyAbstractFallsBack ==
    Returned =>
        ResultAt(KeyAbstract) =
            IF ~DictHas(final, KeyAbstract)
               \/ DictGet(final, KeyAbstract, JNone) = JStr(<<>>)
            THEN JStr(Slice(mergedAbs, 0, maxWords * 8))
            ELSE DictGet(final, KeyAbstract, JNone)

\* ------------------------------------------------------------------ C6
\* C6: once anything was raised inside summarize_url the process has ended
\* with a non-zero status and a message and has printed nothing; whatever
\* is on standard output is the one result summarize_url returned, printed
\* by a run in which nothing was raised.
C6_FatalMeansNoOutput ==
    /\ (raised # "" \/ pc = "exit") =>
          /\ pc = "exit"
          /\ raised # ""
          /\ exitCode # 0
          /\ exitCode # -1
          /\ exitMsg # <<>>
          /\ stdout = <<>>
    /\ stdout # <<>> =>
          /\ pc = "done"
          /\ raised = ""
          /\ IsDict(result)
          /\ stdout = <<result>>
          /\ exitCode = 0

\* a run that died of a failing model call after a chunk had been summarized
C6_Witness ==
    /\ pc = "exit"
    /\ raised = "ModelError"
    /\ Len(sect) >= 1
    /\ exitCode = 1
    /\ stdout = <<>>

\* ------------------------------------------------------------------ C9
\* the requests of a successful run, in order
ExpectedCalls ==
    LET cks == Chunks(text, DefaultN, DefaultOverlap)
    IN  <<[op |-> "GET", text |-> Url, bullets |-> 0, max_words |-> 0]>>
        \o [k \in 1..Len(cks) |->
              [op |-> "generate", text |-> cks[k],
               bullets |-> IF bullets < 7 THEN bullets ELSE 7,
               max_words |-> IF maxWords < 220 THEN maxWords ELSE 220]]
        \o <<[op |-> "generate", text |-> mergedAbs,
              bullets |-> bullets, max_words |-> maxWords]>>

\* C9: the requests of a run are always a prefix of: one GET, then one model
\* request per chunk in chunk order with bullets min(7, bullets) and word cap
\* min(220, max_words); a run in which summarize_url returned has sent exactly
\* those and then one last model request for the merged abstract with the
\* caller's bullets and max_words, the number of chunks plus one model
\* requests in all.
C9_CallsInFixedOrder ==
    /\ \A i \in 1..Len(calls) : (calls[i].op = "GET") <=> (i = 1)
    /\ Len(calls) <= Len(ExpectedCalls)
    /\ \A i \in 1..Len(calls) : calls[i] = ExpectedCalls[i]
    /\ Returned =>
          /\ calls = ExpectedCalls
          /\ Len(calls) = Len(chunkList) + 2
          /\ Len(sect) = Len(chunkList)

\* a finished run over three chunks whose per-chunk calls were clamped
C9_Witness ==
    /\ pc = "done"
    /\ Len(chunkList) >= 3
    /\ bullets > 7
    /\ maxWords > 220
    /\ Len(calls) = Len(chunkList) + 2

====
